---- MODULE Spec2Model ----
(***************************************************************************)
(* Model of src/app.py: the OCR fragment -> Markdown reconstruction        *)
(* (ClovaOCRProcessor._extract_text), its duplicate inside                 *)
(* call_naver_ocr_image, and the page aggregation of process_pdf.          *)
(*                                                                         *)
(* A Python str is a sequence of code points; a code point is a TLA+       *)
(* string ("A", " ", "|", "\t", "\n"); code points outside ASCII are named *)
(* by their number ("U+D398").  None is the empty tuple <<>> and a value v *)
(* that may be None is <<v>>.                                              *)
(***************************************************************************)
EXTENDS Integers, Sequences, FiniteSets, TLC

\* ------------------------------------------------------------ bounds
MaxFields == 3
MaxPages == 2

\* ------------------------------------------------------------ constants
y_threshold == 10
x_gap_threshold == 50
HeadingMaxLen == 50

\* ------------------------------------------------------------ str helpers

\* Characters str.strip() removes and "not s.strip()" ignores.
Whitespace == {" ", "\t", "\n"}

\* Characters for which str.isupper() holds (of those the inputs use).
UpperCase ==
  {"A", "B", "C", "D", "E", "F", "G", "H", "I", "J", "K", "L", "M",
   "N", "O", "P", "Q", "R", "S", "T", "U", "V", "W", "X", "Y", "Z"}

\* The endswith tuple: . ? ! " ' and the closing brackets U+300D U+300F
\* U+300B U+FF09 U+3011 and ).
SentenceEnders ==
  {".", "?", "!", "\"", "'", "U+300D", "U+300F", "U+300B", "U+FF09",
   "U+3011", ")"}

RECURSIVE LStrip(_)
LStrip(s) ==
  IF s # <<>> /\ Head(s) \in Whitespace THEN LStrip(Tail(s)) ELSE s

RECURSIVE RStrip(_)
RStrip(s) ==
  IF s # <<>> /\ s[Len(s)] \in Whitespace
  THEN RStrip(SubSeq(s, 1, Len(s) - 1))
  ELSE s

Strip(s) == RStrip(LStrip(s))

\* "not line.strip()"
IsBlank(s) == Strip(s) = <<>>

Contains(s, c) == \E k \in 1..Len(s) : s[k] = c

\* sep.join(parts)
RECURSIVE Join(_, _)
Join(sep, parts) ==
  IF parts = <<>> THEN <<>>
  ELSE IF Len(parts) = 1 THEN parts[1]
  ELSE parts[1] \o sep \o Join(sep, Tail(parts))

\* s.split(c) for a one-character separator c
RECURSIVE SplitOn(_, _)
SplitOn(s, c) ==
  IF ~Contains(s, c) THEN <<s>>
  ELSE LET k == CHOOSE j \in 1..Len(s) :
                  s[j] = c /\ \A m \in 1..(j - 1) : s[m] # c
       IN <<SubSeq(s, 1, k - 1)>> \o SplitOn(SubSeq(s, k + 1, Len(s)), c)

\* s.startswith('  ')
StartsWithTwoSpaces(s) == Len(s) >= 2 /\ s[1] = " " /\ s[2] = " "

RECURSIVE MaxOf(_)
MaxOf(s) ==
  IF Len(s) = 1 THEN s[1]
  ELSE LET m == MaxOf(Tail(s)) IN IF s[1] > m THEN s[1] ELSE m

RECURSIVE MinOf(_)
MinOf(s) ==
  IF Len(s) = 1 THEN s[1]
  ELSE LET m == MinOf(Tail(s)) IN IF s[1] < m THEN s[1] ELSE m

Abs(n) == IF n < 0 THEN -n ELSE n

\* f"{n}" for n >= 0
DigitChar(d) == <<"0", "1", "2", "3", "4", "5", "6", "7", "8", "9">>[d + 1]

RECURSIVE Decimal(_)
Decimal(n) ==
  IF n < 10 THEN <<DigitChar(n)>>
  ELSE Decimal(n \div 10) \o <<DigitChar(n % 10)>>

\* ------------------------------------------------------------ line grouper

XCoords(vertices) == [k \in 1..Len(vertices) |-> vertices[k].x]
YCoords(vertices) == [k \in 1..Len(vertices) |-> vertices[k].y]
Width(vertices) == MaxOf(XCoords(vertices)) - MinOf(XCoords(vertices))
Height(vertices) == MaxOf(YCoords(vertices)) - MinOf(YCoords(vertices))

\* "if vertices and len(vertices) > 0"
HasVertices(field) == field.vertices # <<>>

\* IsVertical with <= for <: a square box would be dropped as well.
IsVerticalOrSquare(vertices) == Width(vertices) <= Height(vertices)

\* "if width < height: continue"
IsVertical(vertices) == Width(vertices) < Height(vertices)

\* "if y_diff > y_threshold"
NewLineByY(y_diff) == y_diff > y_threshold

\* NewParagraph with a zero line_height switching the paragraph test off.
NewParagraphPositiveHeight(y_diff, line_height) ==
  line_height > 0 /\ 2 * y_diff > 3 * line_height

\* "if y_diff > line_height * 1.5" (both sides doubled: integers only)
NewParagraph(y_diff, line_height) == 2 * y_diff > 3 * line_height

\* "(current_x_start - last_x_end) > x_gap_threshold"
NewLineByX(current_x_start, last_x_end) ==
  (current_x_start - last_x_end) > x_gap_threshold

\* The locals of the grouping loop before its first iteration.  lineSrc and
\* curSrc are history: the input positions of the fragments whose texts
\* make up each entry of lines (<<>> for a paragraph marker) and of
\* current_line.
GroupInit ==
  [lines |-> <<>>, current_line |-> <<>>, last_y |-> <<>>,
   last_x_end |-> <<>>, line_height |-> <<>>,
   new_line |-> FALSE, new_paragraph |-> FALSE,
   lineSrc |-> <<>>, curSrc |-> <<>>]

\* FlushLine without "current_line = []": the buffer is kept.
FlushLineKeepBuffer(g) ==
  IF g.current_line # <<>>
  THEN [g EXCEPT !.lines = Append(@, Join(<<" ">>, g.current_line)),
                 !.lineSrc = Append(@, g.curSrc)]
  ELSE g

\* "if current_line: lines.append(' '.join(current_line)); current_line = []"
FlushLine(g) ==
  IF g.current_line # <<>>
  THEN [g EXCEPT !.lines = Append(@, Join(<<" ">>, g.current_line)),
                 !.lineSrc = Append(@, g.curSrc),
                 !.current_line = <<>>,
                 !.curSrc = <<>>]
  ELSE g

\* "lines.append('')"
AppendMarker(g) ==
  [g EXCEPT !.lines = Append(@, <<>>), !.lineSrc = Append(@, <<>>)]

\* "current_line.append(text)"
AppendText(g, field, k) ==
  [g EXCEPT !.current_line = Append(@, field.inferText),
            !.curSrc = Append(@, k)]

\* "if line_height is None: line_height = height"
SetLineHeight(g, vertices) ==
  IF g.line_height = <<>>
  THEN [g EXCEPT !.line_height = <<Height(vertices)>>]
  ELSE g

\* The body of the branch for a horizontal fragment with vertices.
PlaceField(g, field, k) ==
  LET current_y == MinOf(YCoords(field.vertices))
      current_x_start == MinOf(XCoords(field.vertices))
      current_x_end == MaxOf(XCoords(field.vertices))
      has_last == g.last_y # <<>>
      y_diff == IF has_last THEN Abs(current_y - g.last_y[1]) ELSE 0
      by_y == has_last /\ NewLineByY(y_diff)
      by_x == has_last /\ ~by_y /\ g.last_x_end # <<>>
                /\ NewLineByX(current_x_start, g.last_x_end[1])
      new_line == by_y \/ by_x
      new_paragraph == by_y /\ NewParagraph(y_diff, g.line_height[1])
      g1 == IF new_line THEN FlushLine(g) ELSE g
      g2 == IF new_line /\ new_paragraph THEN AppendMarker(g1) ELSE g1
      g3 == AppendText(g2, field, k)
  IN [g3 EXCEPT !.last_y = <<current_y>>,
                !.last_x_end = <<current_x_end>>,
                !.new_line = new_line,
                !.new_paragraph = new_paragraph]

\* One iteration of "for field in fields" on the k-th field.
GroupField(g, field, k) ==
  IF HasVertices(field)
  THEN LET g1 == SetLineHeight(g, field.vertices)
       IN IF IsVertical(field.vertices) THEN g1
          ELSE PlaceField(g1, field, k)
  ELSE AppendText(g, field, k)

\* The loop over fields[from..], then the flush of the last line.
RECURSIVE GroupFrom(_, _, _)
GroupFrom(g, fields, k) ==
  IF k > Len(fields) THEN g
  ELSE GroupFrom(GroupField(g, fields[k], k), fields, k + 1)

LineGrouper(fields) == FlushLine(GroupFrom(GroupInit, fields, 1))

\* ------------------------------------------------------------ paragraph assembler

\* procSrc and parSrc are history: the positions in lines of the lines
\* joined into each entry of processed_lines and held in current_paragraph.
AssembleInit ==
  [processed_lines |-> <<>>, current_paragraph |-> <<>>,
   procSrc |-> <<>>, parSrc |-> <<>>]

\* "if current_paragraph: processed_lines.append(' '.join(...)); ... = []"
FlushParagraph(a) ==
  IF a.current_paragraph # <<>>
  THEN [a EXCEPT !.processed_lines = Append(@, Join(<<" ">>, a.current_paragraph)),
                 !.procSrc = Append(@, a.parSrc),
                 !.current_paragraph = <<>>,
                 !.parSrc = <<>>]
  ELSE a

\* BlankLine without the flush of current_paragraph.
BlankLineNoFlush(a, k) ==
  [a EXCEPT !.processed_lines = Append(@, <<>>),
            !.procSrc = Append(@, <<k>>)]

\* The branch "if not line.strip()": flush, append '', continue.
BlankLine(a, k) ==
  LET a1 == FlushParagraph(a)
  IN [a1 EXCEPT !.processed_lines = Append(@, <<>>),
                !.procSrc = Append(@, <<k>>)]

\* line.rstrip().endswith((...))
EndsWithSentence(line) ==
  LET r == RStrip(line) IN r # <<>> /\ r[Len(r)] \in SentenceEnders

\* next_line_new_sentence for the line at position k (1-based)
NextLineNewSentence(lines, k) ==
  IF k < Len(lines) /\ ~IsBlank(lines[k + 1])
  THEN LET next_line == Strip(lines[k + 1])
       IN next_line[1] \in UpperCase \/ StartsWithTwoSpaces(next_line)
  ELSE FALSE

\* One iteration of "for i, line in enumerate(lines)" on position k.
AssembleLine(a, lines, k) ==
  IF IsBlank(lines[k]) THEN BlankLine(a, k)
  ELSE LET a1 == [a EXCEPT !.current_paragraph = Append(@, lines[k]),
                           !.parSrc = Append(@, k)]
       IN IF EndsWithSentence(lines[k])
             /\ (NextLineNewSentence(lines, k) \/ k = Len(lines))
          THEN FlushParagraph(a1)
          ELSE a1

RECURSIVE AssembleFrom(_, _, _)
AssembleFrom(a, lines, k) ==
  IF k > Len(lines) THEN a
  ELSE AssembleFrom(AssembleLine(a, lines, k), lines, k + 1)

ParagraphAssembler(lines) == FlushParagraph(AssembleFrom(AssembleInit, lines, 1))

\* ------------------------------------------------------------ markdown emitter

\* "| " + " | ".join(cells) + " |\n"
TableRow(cells) == <<"|", " ">> \o Join(<<" ", "|", " ">>, cells) \o <<" ", "|", "\n">>

\* ["---" for _ in cells]
Dashes(cells) == [k \in 1..Len(cells) |-> <<"-", "-", "-">>]

\* line.split("|") if "|" in line else line.split("\t")
Cells(line) == IF Contains(line, "|") THEN SplitOn(line, "|") ELSE SplitOn(line, "\t")

\* "\"|\" in line or \"\\t\" in line"
IsTableLine(line) == Contains(line, "|") \/ Contains(line, "\t")

\* The heading test of entry k (1-based) of processed_lines.
IsHeading(processed_lines, k) ==
  /\ Len(processed_lines[k]) < HeadingMaxLen
  /\ (k = 1 \/ IsBlank(processed_lines[k - 1]))
  /\ k < Len(processed_lines)
  /\ ~IsBlank(processed_lines[k + 1])

\* The locals of the emitting loop.  in_table is <<>> while the name is
\* unbound; raised is set when reading it then raises UnboundLocalError.
EmitInit(in_table) ==
  [markdown_text |-> <<>>, in_table |-> in_table, raised |-> FALSE]

\* One iteration of "for i, line in enumerate(processed_lines)".
EmitEntry(e, processed_lines, k) ==
  LET line == processed_lines[k] IN
  IF e.raised THEN e
  ELSE IF IsBlank(line)
  THEN [e EXCEPT !.markdown_text = @ \o <<"\n">>, !.in_table = <<FALSE>>]
  ELSE IF IsHeading(processed_lines, k)
  THEN [e EXCEPT !.markdown_text = @ \o <<"#", "#", "#", " ">> \o line \o <<"\n", "\n">>]
  ELSE IF IsTableLine(line)
  THEN IF e.in_table = <<>>
       THEN [e EXCEPT !.raised = TRUE]
       ELSE IF ~e.in_table[1]
       THEN [e EXCEPT !.in_table = <<TRUE>>,
                      !.markdown_text = @ \o TableRow(Cells(line))
                                          \o TableRow(Dashes(Cells(line)))]
       ELSE [e EXCEPT !.markdown_text = @ \o TableRow(Cells(line))]
  ELSE [e EXCEPT !.in_table = <<FALSE>>,
                 !.markdown_text = @ \o line \o <<"\n", "\n">>]

RECURSIVE EmitFrom(_, _, _)
EmitFrom(e, processed_lines, k) ==
  IF k > Len(processed_lines) THEN e
  ELSE EmitFrom(EmitEntry(e, processed_lines, k), processed_lines, k + 1)

\* _extract_text on a page that has 'fields': the three loops in turn.
MarkdownOf(fields) ==
  EmitFrom(EmitInit(<<FALSE>>),
           ParagraphAssembler(LineGrouper(fields).lines).processed_lines,
           1).markdown_text

\* ------------------------------------------------------------ page aggregator

\* PageEntry numbering the pages from 0.
PageEntryZeroBased(idx, page_text) ==
  <<"#", "#", " ", "U+D398", "U+C774", "U+C9C0", " ">> \o Decimal(idx)
    \o <<"\n", "\n">> \o page_text

\* f"## 페이지 {idx+1}\n\n{page_text}" for the 0-based idx
PageEntry(idx, page_text) ==
  <<"#", "#", " ", "U+D398", "U+C774", "U+C9C0", " ">> \o Decimal(idx + 1)
    \o <<"\n", "\n">> \o page_text

\* "\n\n".join(all_page_texts)
JoinPages(all_page_texts) == Join(<<"\n", "\n">>, all_page_texts)

\* "OCR 결과를 불러오지 못했습니다."
Fallback ==
  <<"O", "C", "R", " ", "U+ACB0", "U+ACFC", "U+B97C", " ", "U+BD88", "U+B7EC",
    "U+C624", "U+C9C0", " ", "U+BABB", "U+D588", "U+C2B5", "U+B2C8", "U+B2E4", ".">>

\* "if ocr_result and 'images' in ocr_result and len(ocr_result['images']) > 0"
HasPages(result) == result.ok /\ result.hasImages /\ Len(result.images) > 0

\* f"# {title_text}\n\n"
TitleMarkdown(title_text) == <<"#", " ">> \o title_text \o <<"\n", "\n">>

\* What a function returned: text is <<>> for None, else <<the string>>;
\* error is "" for None, else the name of the message.
Returned(text, error) == [text |-> text, error |-> error]
NotReturned == Returned(<<>>, "running")

\* ------------------------------------------------------------ inputs

\* Four corner points of an axis-parallel box, top-left first.
Box(x0, x1, y0, y1) ==
  <<[x |-> x0, y |-> y0], [x |-> x1, y |-> y0],
    [x |-> x1, y |-> y1], [x |-> x0, y |-> y1]>>

Fragment(text, vertices) == [inferText |-> text, vertices |-> vertices]

\* A line of HeadingMaxLen characters: too long for the heading test.
LongText == [k \in 1..HeadingMaxLen |-> "x"]

\* The fragments the OCR service may return for a page.
FragmentKinds ==
  { Fragment(<<"A", "|", "B">>, Box(0, 40, 0, 20)),         \* row 0
    Fragment(<<"a", ".">>, Box(45, 85, 0, 20)),             \* row 0, next word
    Fragment(<<" ">>, Box(150, 190, 2, 22)),                \* row 0, after a wide gap
    Fragment(<<"C", "|", "D">>, Box(0, 40, 25, 45)),        \* next row
    Fragment(<<" ", " ", "b">>, Box(60, 100, 27, 47)),      \* next row, indented
    Fragment(<<"b">>, Box(0, 20, 50, 70)),                  \* square box
    Fragment(<<"A", "b">>, Box(0, 40, 100, 120)),           \* after a tall gap
    Fragment(<<"x">>, Box(0, 5, 0, 100)),                   \* vertical text
    Fragment(<<"a">>, Box(0, 40, 0, 0)),                    \* box of height 0
    Fragment(<<"U+AC00">>, <<>>),                           \* no boundingPoly
    Fragment(LongText, Box(0, 40, 0, 20)) }

FieldSeqs(n) == UNION {[1..m -> FragmentKinds] : m \in 0..n}

Page(hasFields, fields, hasTitle, title) ==
  [hasFields |-> hasFields, fields |-> fields, hasTitle |-> hasTitle, title |-> title]

\* Pages with a 'fields' list of up to n fragments.
FieldPages(n) == {Page(TRUE, fs, FALSE, <<>>) : fs \in FieldSeqs(n)}

\* Pages without 'fields', with and without a 'title'.
BarePages == {Page(FALSE, <<>>, FALSE, <<>>), Page(FALSE, <<>>, TRUE, <<"T">>)}

Response(ok, hasImages, images) == [ok |-> ok, hasImages |-> hasImages, images |-> images]

\* The call failed (None / RequestException), or the JSON has no 'images'.
FailedResponses == {Response(FALSE, FALSE, <<>>), Response(TRUE, FALSE, <<>>)}

\* One page of any shape, or up to MaxPages pages of at most one fragment.
PdfResponses ==
  FailedResponses
    \cup {Response(TRUE, TRUE, <<p>>) : p \in FieldPages(MaxFields) \cup BarePages}
    \cup {Response(TRUE, TRUE, ps) :
            ps \in UNION {[1..n -> FieldPages(1) \cup BarePages] : n \in 0..MaxPages}}

\* An image request carries one image: no page or one page comes back.
ImageResponses ==
  FailedResponses
    \cup {Response(TRUE, TRUE, <<>>)}
    \cup {Response(TRUE, TRUE, <<p>>) : p \in FieldPages(MaxFields) \cup BarePages}

\* ------------------------------------------------------------ state

VARIABLES
  mode,            \* "pdf": process_pdf runs; "image": call_naver_ocr_image runs
  ocr_result,      \* what the OCR service answers to the request
  pc,              \* position: "call", "group", "assemble", "emit", "done"
  idx,             \* 0-based index of the page being extracted
  i,               \* 1-based position of the running loop
  g,               \* locals of the line grouping loop
  a,               \* locals of the paragraph assembling loop
  e,               \* locals of the emitting loop
  all_page_texts,  \* process_pdf's list
  ret              \* what the function returned

vars == <<mode, ocr_result, pc, idx, i, g, a, e, all_page_texts, ret>>

\* image_result['fields'] of the page being extracted
fields == ocr_result.images[idx + 1].fields

Init ==
  /\ mode \in {"pdf", "image"}
  /\ ocr_result \in (IF mode = "pdf" THEN PdfResponses ELSE ImageResponses)
  /\ pc = "call"
  /\ idx = 0
  /\ i = 1
  /\ g = GroupInit
  /\ a = AssembleInit
  /\ e = EmitInit(<<>>)
  /\ all_page_texts = <<>>
  /\ ret = NotReturned

\* _extract_text is entered for page k (0-based): '' without 'fields',
\* else the grouping loop starts.  process_pdf goes on with the text.
RECURSIVE EnterPage(_, _)
EnterPage(k, texts) ==
  IF k >= Len(ocr_result.images)
  THEN /\ ret' = Returned(<<JoinPages(texts)>>, "")
       /\ pc' = "done"
       /\ all_page_texts' = texts
       /\ UNCHANGED <<idx, i, g, a, e>>
  ELSE IF ~ocr_result.images[k + 1].hasFields
  THEN EnterPage(k + 1, Append(texts, PageEntry(k, <<>>)))
  ELSE /\ idx' = k
       /\ all_page_texts' = texts
       /\ g' = GroupInit
       /\ i' = 1
       /\ pc' = "group"
       /\ UNCHANGED <<a, e, ret>>

\* process_pdf up to the first fragment loop: the OCR call, the test of
\* its result, and the pages that have no 'fields'.
ProcessPdf ==
  /\ mode = "pdf"
  /\ pc = "call"
  /\ UNCHANGED <<mode, ocr_result>>
  /\ IF HasPages(ocr_result)
     THEN EnterPage(0, <<>>)
     ELSE /\ ret' = Returned(<<Fallback>>, "")
          /\ pc' = "done"
          /\ UNCHANGED <<idx, i, g, a, e, all_page_texts>>

\* The tail of call_naver_ocr_image: "if not markdown_text: return None, ..."
ImageReturn(markdown_text) ==
  IF markdown_text = <<>>
  THEN Returned(<<>>, "NoTextExtracted")
  ELSE Returned(<<markdown_text>>, "")

\* call_naver_ocr_image up to the fragment loop: the request, then the
\* 'fields' / 'title' branches.
CallNaverOcrImage ==
  /\ mode = "image"
  /\ pc = "call"
  /\ UNCHANGED <<mode, ocr_result, idx, a, e, all_page_texts>>
  /\ IF ~ocr_result.ok
     THEN /\ ret' = Returned(<<>>, "RequestFailed")
          /\ pc' = "done"
          /\ UNCHANGED <<i, g>>
     ELSE IF ocr_result.hasImages /\ Len(ocr_result.images) > 0
               /\ ocr_result.images[1].hasFields
     THEN /\ g' = GroupInit
          /\ i' = 1
          /\ pc' = "group"
          /\ UNCHANGED ret
     ELSE IF ocr_result.hasImages /\ Len(ocr_result.images) > 0
               /\ ocr_result.images[1].hasTitle
     THEN /\ ret' = ImageReturn(TitleMarkdown(ocr_result.images[1].title))
          /\ pc' = "done"
          /\ UNCHANGED <<i, g>>
     ELSE /\ ret' = ImageReturn(<<>>)
          /\ pc' = "done"
          /\ UNCHANGED <<i, g>>

\* One iteration of "for field in fields".
GroupStepIn(m) ==
  /\ mode = m
  /\ pc = "group"
  /\ i <= Len(fields)
  /\ g' = GroupField(g, fields[i], i)
  /\ i' = i + 1
  /\ UNCHANGED <<mode, ocr_result, pc, idx, a, e, all_page_texts, ret>>

\* The loop is over: the last line is flushed; the next loop starts.
GroupEndIn(m) ==
  /\ mode = m
  /\ pc = "group"
  /\ i > Len(fields)
  /\ g' = FlushLine(g)
  /\ a' = AssembleInit
  /\ i' = 1
  /\ pc' = "assemble"
  /\ UNCHANGED <<mode, ocr_result, idx, e, all_page_texts, ret>>

\* One iteration of "for i, line in enumerate(lines)".
AssembleStepIn(m) ==
  /\ mode = m
  /\ pc = "assemble"
  /\ i <= Len(g.lines)
  /\ a' = AssembleLine(a, g.lines, i)
  /\ i' = i + 1
  /\ UNCHANGED <<mode, ocr_result, pc, idx, g, e, all_page_texts, ret>>

\* The loop is over: the last paragraph is flushed; the emitter starts, with
\* in_table = False in _extract_text and with no in_table at all in
\* call_naver_ocr_image.
AssembleEndIn(m) ==
  /\ mode = m
  /\ pc = "assemble"
  /\ i > Len(g.lines)
  /\ a' = FlushParagraph(a)
  /\ e' = EmitInit(IF m = "pdf" THEN <<FALSE>> ELSE <<>>)
  /\ i' = 1
  /\ pc' = "emit"
  /\ UNCHANGED <<mode, ocr_result, idx, g, all_page_texts, ret>>

\* One iteration of "for i, line in enumerate(processed_lines)".
EmitStepIn(m) ==
  /\ mode = m
  /\ pc = "emit"
  /\ ~e.raised
  /\ i <= Len(a.processed_lines)
  /\ e' = EmitEntry(e, a.processed_lines, i)
  /\ i' = i + 1
  /\ UNCHANGED <<mode, ocr_result, pc, idx, g, a, all_page_texts, ret>>

GroupStep == GroupStepIn("pdf")
GroupEnd == GroupEndIn("pdf")
AssembleStep == AssembleStepIn("pdf")
AssembleEnd == AssembleEndIn("pdf")
EmitStep == EmitStepIn("pdf")

\* _extract_text returns markdown_text; process_pdf appends the page entry
\* and goes on with the next page, or joins the pages and returns.
ExtractTextReturn ==
  /\ mode = "pdf"
  /\ pc = "emit"
  /\ i > Len(a.processed_lines)
  /\ UNCHANGED <<mode, ocr_result>>
  /\ EnterPage(idx + 1, Append(all_page_texts, PageEntry(idx, e.markdown_text)))

ImageGroupStep == GroupStepIn("image")
ImageGroupEnd == GroupEndIn("image")
ImageAssembleStep == AssembleStepIn("image")
ImageAssembleEnd == AssembleEndIn("image")
ImageEmitStep == EmitStepIn("image")

\* The emitting loop of call_naver_ocr_image is over: the final test.
ImageEmitReturn ==
  /\ mode = "image"
  /\ pc = "emit"
  /\ ~e.raised
  /\ i > Len(a.processed_lines)
  /\ ret' = ImageReturn(e.markdown_text)
  /\ pc' = "done"
  /\ UNCHANGED <<mode, ocr_result, idx, i, g, a, e, all_page_texts>>

\* "except Exception as e": the UnboundLocalError of in_table is caught.
ImageExcept ==
  /\ mode = "image"
  /\ pc = "emit"
  /\ e.raised
  /\ ret' = Returned(<<>>, "UnexpectedError")
  /\ pc' = "done"
  /\ UNCHANGED <<mode, ocr_result, idx, i, g, a, e, all_page_texts>>

Next ==
  \/ ProcessPdf
  \/ GroupStep
  \/ GroupEnd
  \/ AssembleStep
  \/ AssembleEnd
  \/ EmitStep
  \/ ExtractTextReturn
  \/ CallNaverOcrImage
  \/ ImageGroupStep
  \/ ImageGroupEnd
  \/ ImageAssembleStep
  \/ ImageAssembleEnd
  \/ ImageEmitStep
  \/ ImageEmitReturn
  \/ ImageExcept

Spec == Init /\ [][Next]_vars

\* ------------------------------------------------------------ claims

Range(s) == {s[k] : k \in DOMAIN s}

RECURSIVE Flatten(_)
Flatten(ss) == IF ss = <<>> THEN <<>> ELSE Head(ss) \o Flatten(Tail(ss))

\* The grouping loop has run on the first Grouped fragments of the page.
InPage == pc \in {"group", "assemble", "emit"}
Grouped == IF pc = "group" THEN i - 1 ELSE Len(fields)
GroupDone == pc \in {"assemble", "emit"}
AssembleDone == pc = "emit"
EmitDone == pc = "emit" /\ ~e.raised /\ i > Len(a.processed_lines)

\* The spec's filter rule: vertices present and width < height.
Dropped(field) ==
  /\ field.vertices # <<>>
  /\ Width(field.vertices) < Height(field.vertices)

\* The positions 1..n of the fragments the filter keeps, ascending.
RECURSIVE KeptUpTo(_, _)
KeptUpTo(fs, n) ==
  IF n = 0 THEN <<>>
  ELSE IF Dropped(fs[n]) THEN KeptUpTo(fs, n - 1)
  ELSE Append(KeptUpTo(fs, n - 1), n)

IsTableText(line) == ~IsBlank(line) /\ Contains(line, "|")

\* C1: when the lines of a page are two consecutive non-blank lines that each
\* contain '|' and split into the same number n of cells, the Markdown is one
\* header row of the first line's cells, one separator row of n '---' cells
\* and one data row of the second line's cells.
C1_TwoTableRows ==
  (mode = "pdf" /\ EmitDone /\ Len(g.lines) = 2
     /\ IsTableText(g.lines[1]) /\ IsTableText(g.lines[2])
     /\ Len(SplitOn(g.lines[1], "|")) = Len(SplitOn(g.lines[2], "|")))
  => e.markdown_text =
       TableRow(SplitOn(g.lines[1], "|"))
         \o TableRow([k \in 1..Len(SplitOn(g.lines[1], "|")) |-> <<"-", "-", "-">>])
         \o TableRow(SplitOn(g.lines[2], "|"))

\* C2: for every fragment sequence that _extract_text turns into a non-empty
\* Markdown string M, call_naver_ocr_image given the same fields returns
\* (M, None).
C2_ImageMatchesExtractText ==
  (mode = "image" /\ pc = "done" /\ HasPages(ocr_result)
     /\ ocr_result.images[1].hasFields
     /\ MarkdownOf(ocr_result.images[1].fields) # <<>>)
  => ret = Returned(<<MarkdownOf(ocr_result.images[1].fields)>>, "")

\* C3: the lines the Line Grouper produces equal the lines it produces from
\* the same fragment sequence with the dropped fragments removed beforehand.
C3_DroppedHasNoEffect ==
  GroupDone =>
    g.lines = LineGrouper(SelectSeq(fields, LAMBDA f : ~Dropped(f))).lines

C5_InputOrderKept ==
  InPage =>
    /\ Flatten(g.lineSrc) \o g.curSrc = KeptUpTo(fields, Grouped)
    /\ Len(g.lineSrc) = Len(g.lines)
    /\ \A j \in 1..Len(g.lines) :
         g.lines[j] =
           Join(<<" ">>, [n \in 1..Len(g.lineSrc[j]) |-> fields[g.lineSrc[j][n]].inferText])
    /\ g.current_line = [n \in 1..Len(g.curSrc) |-> fields[g.curSrc[n]].inferText]

C5_Witness ==
  /\ GroupDone
  /\ Len(g.lines) >= 2
  /\ \E k1, k2 \in 1..Len(fields) :
       /\ k1 < k2
       /\ ~Dropped(fields[k1]) /\ ~Dropped(fields[k2])
       /\ fields[k1].vertices # <<>> /\ fields[k2].vertices # <<>>
       /\ MinOf(YCoords(fields[k2].vertices)) < MinOf(YCoords(fields[k1].vertices))
       /\ MinOf(XCoords(fields[k2].vertices)) < MinOf(XCoords(fields[k1].vertices))

\* C6: each blank entry of lines, at position k, gives its own empty entry of
\* processed_lines; every entry before it holds only lines before k and every
\* entry after it only lines after k, and no line is lost.
C6_BlankLineIsBoundary ==
  AssembleDone =>
    /\ \A k \in 1..Len(g.lines) : \E j \in 1..Len(a.procSrc) : k \in Range(a.procSrc[j])
    /\ \A k \in 1..Len(g.lines) :
         IsBlank(g.lines[k]) =>
           \E j \in 1..Len(a.procSrc) :
             /\ a.procSrc[j] = <<k>>
             /\ a.processed_lines[j] = <<>>
             /\ \A j2 \in 1..(j - 1) : \A n \in Range(a.procSrc[j2]) : n < k
             /\ \A j2 \in (j + 1)..Len(a.procSrc) : \A n \in Range(a.procSrc[j2]) : n > k

C6_Witness ==
  /\ AssembleDone
  /\ Len(g.lines) = 3
  /\ IsBlank(g.lines[2])
  /\ ~IsBlank(g.lines[1]) /\ ~EndsWithSentence(g.lines[1])
  /\ ~IsBlank(g.lines[3]) /\ Strip(g.lines[3])[1] \notin UpperCase
  /\ Len(a.processed_lines) = 3

\* A page with no fragments: an empty 'fields' list, or no 'fields' and no
\* 'title'.
EmptyPage(page) ==
  \/ page.hasFields /\ page.fields = <<>>
  \/ ~page.hasFields /\ ~page.hasTitle

\* C7: a page with no fragments ends in the empty Markdown string, with no
\* error outcome, and the empty page text reaches the caller.
C7_EmptyInputNotError ==
  (pc = "done" /\ HasPages(ocr_result) /\ Len(ocr_result.images) = 1
     /\ EmptyPage(ocr_result.images[1]))
  => /\ ret.error = ""
     /\ ret.text = <<IF mode = "pdf" THEN PageEntry(0, <<>>) ELSE <<>>>>

\* The Markdown of one page, and the aggregate the spec describes.
PageMarkdown(page) == IF page.hasFields THEN MarkdownOf(page.fields) ELSE <<>>

ExpectedPage(n, page) ==
  <<"#", "#", " ", "U+D398", "U+C774", "U+C9C0", " ">>
    \o <<(<<"1", "2", "3", "4", "5", "6", "7", "8", "9">>)[n]>>
    \o <<"\n", "\n">> \o PageMarkdown(page)

RECURSIVE ExpectedPages(_, _)
ExpectedPages(pages, n) ==
  IF n > Len(pages) THEN <<>>
  ELSE (IF n > 1 THEN <<"\n", "\n">> ELSE <<>>)
         \o ExpectedPage(n, pages[n]) \o ExpectedPages(pages, n + 1)

\* C8: for n >= 1 pages process_pdf returns the pages in input order, page n
\* under the header '## 페이지 n', joined by two newlines, empty pages
\* included; with no result or no page it returns the fallback string, which
\* differs from every output for n >= 1 pages.
C8_PageAggregator ==
  (mode = "pdf" /\ pc = "done") =>
    IF ocr_result.ok /\ ocr_result.hasImages /\ ocr_result.images # <<>>
    THEN /\ ret = Returned(<<ExpectedPages(ocr_result.images, 1)>>, "")
         /\ Len(all_page_texts) = Len(ocr_result.images)
         /\ ret.text[1] # Fallback
    ELSE ret = Returned(<<Fallback>>, "")

C8_Witness ==
  /\ mode = "pdf" /\ pc = "done"
  /\ Len(ocr_result.images) = 2
  /\ PageMarkdown(ocr_result.images[1]) = <<>>
  /\ PageMarkdown(ocr_result.images[2]) # <<>>
  /\ ret.error = ""

Markers(lineSrc) == Cardinality({j \in 1..Len(lineSrc) : lineSrc[j] = <<>>})

\* The positions 1..n of the fragments the grouper places by their box.
Placed(fs, n) == SelectSeq(KeptUpTo(fs, n), LAMBDA k : fs[k].vertices # <<>>)

\* The places where a placed fragment lies more than 10 below or above the
\* placed fragment before it.
VerticalBreaks(fs, n) ==
  LET p == Placed(fs, n)
      top(k) == MinOf(YCoords(fs[k].vertices))
  IN {m \in 2..Len(p) : Abs(top(p[m]) - top(p[m - 1])) > 10}

\* C9 as stated: with line_height = 0 the Line Grouper appends no paragraph
\* marker to lines.
C9_ZeroHeightNoMarker ==
  (InPage /\ g.line_height = <<0>>) => Markers(g.lineSrc) = 0

\* C9 as amended: with line_height = 0 the Line Grouper appends a paragraph
\* marker at every vertical line break (y_diff > 10) and nowhere else.
C9_ZeroHeightMarkerAtEveryBreak ==
  (InPage /\ g.line_height = <<0>>) =>
    Markers(g.lineSrc) = Cardinality(VerticalBreaks(fields, Grouped))

C9_Witness ==
  /\ GroupDone
  /\ g.line_height = <<0>>
  /\ Markers(g.lineSrc) = 2
  /\ Len(g.lines) = 5

\* C10: a non-blank line that ends a sentence and is followed by a non-blank
\* line starting with two spaces is not joined with that line into one entry
\* of processed_lines.
C10_IndentStartsNewSentence ==
  AssembleDone =>
    \A k \in 1..(Len(g.lines) - 1) :
      (/\ ~IsBlank(g.lines[k]) /\ EndsWithSentence(g.lines[k])
       /\ ~IsBlank(g.lines[k + 1]) /\ StartsWithTwoSpaces(g.lines[k + 1]))
      => ~\E j \in 1..Len(a.procSrc) :
            k \in Range(a.procSrc[j]) /\ (k + 1) \in Range(a.procSrc[j])

\* C11: every blank entry of lines is a paragraph marker appended by a
\* new_paragraph decision, none is made of fragment text; so every empty
\* entry of processed_lines that the blank-line branch appends stems from a
\* marker.
C11_BlankLinesAreMarkers ==
  /\ GroupDone =>
       \A j \in 1..Len(g.lines) : IsBlank(g.lines[j]) => g.lineSrc[j] = <<>>
  /\ AssembleDone =>
       \A j \in 1..Len(a.procSrc) :
         (a.processed_lines[j] = <<>> /\ Len(a.procSrc[j]) = 1)
           => g.lineSrc[a.procSrc[j][1]] = <<>>

====
